---------------------------- MODULE Spec2Model ----------------------------
(***************************************************************************)
(* Model of src/src/App.jsx: the resilient JSON extractor parseJSONSafely, *)
(* the statistical summarizer summarizeData, the prompt context builder    *)
(* and the three request workflows of MetabolomicsHypothesisGenerator.     *)
(*                                                                         *)
(* Text is a sequence of one-character strings.  Numbers of the uploaded   *)
(* table are fixed-point integers in units of 0.0001 (0.5 is 5000).        *)
(***************************************************************************)
EXTENDS Integers, Sequences, FiniteSets, TLC

VARIABLES
    \* ---- arguments and return value of the pure functions under check
    arg,            \* the call's inputs (and how the input text was built)
    ret,            \* what the call returned, NoCall before the call
    \* ---- React state of MetabolomicsHypothesisGenerator (App.jsx 256-269)
    apiKey, data, columns, summary, selectedType, customPrompt,
    hypotheses, experimentalDesign, literatureAnalysis,
    loading, error, activeTab,
    \* ---- the latest invocation of each workflow: suspended at the await
    \* ---- of callClaudeAPI, or how it ended
    pending,
    \* ---- the requests of each workflow sent by fetch and not yet answered
    inflight

vars == <<arg, ret, apiKey, data, columns, summary, selectedType, customPrompt,
          hypotheses, experimentalDesign, literatureAnalysis,
          loading, error, activeTab, pending, inflight>>

appVars == <<apiKey, data, columns, summary, selectedType, customPrompt,
             hypotheses, experimentalDesign, literatureAnalysis,
             loading, error, activeTab, pending, inflight>>

-----------------------------------------------------------------------------
(* Characters *)

LB == "["
RB == "]"
LC == "{"
RC == "}"
QT == "\""
CM == ","
CL == ":"
BS == "\\"
SP == " "

Ws == {SP}
Digits == {"1", "2"}
\* escapes JSON accepts after a backslash, among the characters modelled
Escapable == {QT, BS}

Min(a, b) == IF a < b THEN a ELSE b
Max(a, b) == IF a > b THEN a ELSE b

-----------------------------------------------------------------------------
(* JSON values.  Every value is a record [t, v]:                           *)
(*   num: v the numeral's characters     str: v the decoded characters     *)
(*   arr: v the sequence of elements     obj: v a function key -> value    *)

Null == [t |-> "null", v |-> <<>>]
JNum(ds) == [t |-> "num", v |-> ds]
JStr(cs) == [t |-> "str", v |-> cs]
JArr(es) == [t |-> "arr", v |-> es]
JObj(f) == [t |-> "obj", v |-> f]

\* deep equality of two values (the tag decides how v is compared)
RECURSIVE JEq(_, _)
JEq(a, b) ==
    /\ a.t = b.t
    /\ IF a.t \in {"num", "str"} THEN a.v = b.v
       ELSE IF a.t = "arr"
            THEN /\ Len(a.v) = Len(b.v)
                 /\ \A i \in 1..Len(a.v) : JEq(a.v[i], b.v[i])
       ELSE IF a.t = "obj"
            THEN /\ DOMAIN a.v = DOMAIN b.v
                 /\ \A k \in DOMAIN a.v : JEq(a.v[k], b.v[k])
       ELSE TRUE

\* obj[key] = val: a repeated key keeps the last value
PutMember(f, key, val) ==
    [k \in (DOMAIN f) \cup {key} |-> IF k = key THEN val ELSE f[k]]

-----------------------------------------------------------------------------
(* JSON.parse: strict recursive-descent parse of a whole text *)

PFail == [ok |-> FALSE, v |-> Null, p |-> 0]
POk(val, next) == [ok |-> TRUE, v |-> val, p |-> next]

RECURSIVE SkipWs(_, _)
SkipWs(s, i) ==
    IF i <= Len(s) /\ s[i] \in Ws THEN SkipWs(s, i + 1) ELSE i

RECURSIVE PNum(_, _, _)
PNum(s, i, acc) ==
    IF i <= Len(s) /\ s[i] \in Digits
    THEN PNum(s, i + 1, Append(acc, s[i]))
    ELSE POk(JNum(acc), i)

RECURSIVE PStr(_, _, _)
PStr(s, i, acc) ==
    IF i > Len(s) THEN PFail
    ELSE IF s[i] = QT THEN POk(JStr(acc), i + 1)
    ELSE IF s[i] = BS
         THEN IF i + 1 <= Len(s) /\ s[i + 1] \in Escapable
              THEN PStr(s, i + 2, Append(acc, s[i + 1]))
              ELSE PFail
    ELSE PStr(s, i + 1, Append(acc, s[i]))

RECURSIVE PValue(_, _), PElems(_, _, _), PMembers(_, _, _)
PValue(s, i) ==
    LET j == SkipWs(s, i) IN
    IF j > Len(s) THEN PFail
    ELSE IF s[j] = LB
         THEN LET k == SkipWs(s, j + 1) IN
              IF k <= Len(s) /\ s[k] = RB THEN POk(JArr(<<>>), k + 1)
              ELSE PElems(s, j + 1, <<>>)
    ELSE IF s[j] = LC
         THEN LET k == SkipWs(s, j + 1) IN
              IF k <= Len(s) /\ s[k] = RC THEN POk(JObj(<<>>), k + 1)
              ELSE PMembers(s, j + 1, <<>>)
    ELSE IF s[j] = QT THEN PStr(s, j + 1, <<>>)
    ELSE IF s[j] \in Digits THEN PNum(s, j, <<>>)
    ELSE PFail

PElems(s, i, acc) ==
    LET r == PValue(s, i) IN
    IF ~r.ok THEN PFail
    ELSE LET k == SkipWs(s, r.p) IN
         IF k > Len(s) THEN PFail
         ELSE IF s[k] = CM THEN PElems(s, k + 1, Append(acc, r.v))
         ELSE IF s[k] = RB THEN POk(JArr(Append(acc, r.v)), k + 1)
         ELSE PFail

PMembers(s, i, f) ==
    LET k == SkipWs(s, i) IN
    IF k > Len(s) \/ s[k] # QT THEN PFail
    ELSE LET key == PStr(s, k + 1, <<>>) IN
         IF ~key.ok THEN PFail
         ELSE LET c == SkipWs(s, key.p) IN
              IF c > Len(s) \/ s[c] # CL THEN PFail
              ELSE LET val == PValue(s, c + 1) IN
                   IF ~val.ok THEN PFail
                   ELSE LET d == SkipWs(s, val.p)
                            g == PutMember(f, key.v.v, val.v)
                        IN IF d > Len(s) THEN PFail
                           ELSE IF s[d] = CM THEN PMembers(s, d + 1, g)
                           ELSE IF s[d] = RC THEN POk(JObj(g), d + 1)
                           ELSE PFail

\* JSON.parse(s): [ok, v]; ok = FALSE stands for the SyntaxError it throws
JSONparse(s) ==
    LET r == PValue(s, 1) IN
    IF r.ok /\ SkipWs(s, r.p) = Len(s) + 1
    THEN [ok |-> TRUE, v |-> r.v]
    ELSE [ok |-> FALSE, v |-> Null]

-----------------------------------------------------------------------------
(* String helpers of the regular expressions *)

\* no character of cs occurs in s from index i on
NoneFrom(s, i, cs) == \A j \in i..Len(s) : s[j] \notin cs

\* index of the first character of cs at or after i, Len(s)+1 when none
RECURSIVE FirstOf(_, _, _)
FirstOf(s, i, cs) ==
    IF i > Len(s) \/ s[i] \in cs THEN i ELSE FirstOf(s, i + 1, cs)

\* index of the last character of cs in s, 0 when none
RECURSIVE LastOf(_, _, _)
LastOf(s, i, cs) ==
    IF i = 0 \/ s[i] \in cs THEN i ELSE LastOf(s, i - 1, cs)

At(s, i, c) == i >= 1 /\ i <= Len(s) /\ s[i] = c

\* GreedyMatch with a lazy quantifier (/\[[\s\S]*?\]/): to the first closer
LazyMatch(text, open, close) ==
    LET a == FirstOf(text, 1, {open})
        b == FirstOf(text, a + 1, {close})
    IN IF a <= Len(text) /\ b <= Len(text) THEN SubSeq(text, a, b) ELSE <<>>

\* text.match(/\[[\s\S]*\]/) resp. /\{[\s\S]*\}/: greedy, from the first
\* opener to the last closer of the same kind; <<>> stands for no match
GreedyMatch(text, open, close) ==
    LET a == FirstOf(text, 1, {open})
        b == LastOf(text, Len(text), {close})
    IN IF a <= Len(text) /\ b > a THEN SubSeq(text, a, b) ELSE <<>>

\* text.match(/\[[\s\S]*/)?.[0] resp. /\{[\s\S]*/: first opener to the end
TailMatch(text, open) ==
    LET a == FirstOf(text, 1, {open})
    IN IF a <= Len(text) THEN SubSeq(text, a, Len(text)) ELSE <<>>

\* ,\s*"[^"]*"  matched from the comma at i: the index after the closing
\* quote of the key, 0 when it does not match
KeyAfterComma(s, i) ==
    IF ~At(s, i, CM) THEN 0
    ELSE LET j == SkipWs(s, i + 1) IN
         IF ~At(s, j, QT) THEN 0
         ELSE LET k == FirstOf(s, j + 1, {QT}) IN
              IF k > Len(s) THEN 0 ELSE k + 1

\* /,\s*"[^"]*$/
MatchIncompleteString(s, i) ==
    /\ At(s, i, CM)
    /\ LET j == SkipWs(s, i + 1) IN At(s, j, QT) /\ NoneFrom(s, j + 1, {QT})

\* /,\s*"[^"]*":\s*"[^"]*$/
MatchIncompleteStringPair(s, i) ==
    LET c == KeyAfterComma(s, i) IN
    /\ c # 0
    /\ At(s, c, CL)
    /\ LET m == SkipWs(s, c + 1) IN At(s, m, QT) /\ NoneFrom(s, m + 1, {QT})

\* /,\s*"[^"]*":\s*\[[^\]]*$/
MatchIncompleteArrayPair(s, i) ==
    LET c == KeyAfterComma(s, i) IN
    /\ c # 0
    /\ At(s, c, CL)
    /\ LET m == SkipWs(s, c + 1) IN At(s, m, LB) /\ NoneFrom(s, m + 1, {RB})

\* /,\s*"[^"]*":\s*$/
MatchKeyWithoutValue(s, i) ==
    LET c == KeyAfterComma(s, i) IN
    /\ c # 0
    /\ At(s, c, CL)
    /\ SkipWs(s, c + 1) = Len(s) + 1

\* /,\s*$/
MatchTrailingComma(s, i) ==
    At(s, i, CM) /\ SkipWs(s, i + 1) = Len(s) + 1

\* /,\s*\{[^}]*$/
MatchIncompleteObject(s, i) ==
    /\ At(s, i, CM)
    /\ LET j == SkipWs(s, i + 1) IN At(s, j, LC) /\ NoneFrom(s, j + 1, {RC})

\* s.replace(re, ''), re one of the six patterns above, each anchored at the
\* end of the text: the leftmost match is cut off
CutAt(s, hits) ==
    IF hits = {} THEN s
    ELSE SubSeq(s, 1, (CHOOSE i \in hits : \A j \in hits : i <= j) - 1)

Trim1(s) == CutAt(s, {i \in 1..Len(s) : MatchIncompleteString(s, i)})
Trim2(s) == CutAt(s, {i \in 1..Len(s) : MatchIncompleteStringPair(s, i)})
Trim3(s) == CutAt(s, {i \in 1..Len(s) : MatchIncompleteArrayPair(s, i)})
Trim4(s) == CutAt(s, {i \in 1..Len(s) : MatchKeyWithoutValue(s, i)})
Trim5(s) == CutAt(s, {i \in 1..Len(s) : MatchTrailingComma(s, i)})
Trim6(s) == CutAt(s, {i \in 1..Len(s) : MatchIncompleteObject(s, i)})

\* lines 126-134: the six replacements, in the source's order
TrimTail(s) == Trim6(Trim5(Trim4(Trim3(Trim2(Trim1(s))))))

-----------------------------------------------------------------------------
(* Lines 136-170: count the open structures outside strings, close them *)

\* the loop of lines 142-162 from index i on, st = [inString, escape,
\* brackets, braces]
RECURSIVE CountLoop(_, _, _)
CountLoop(s, i, st) ==
    IF i > Len(s) THEN st
    ELSE LET c == s[i] IN
         CountLoop(s, i + 1,
            IF st.escape THEN [st EXCEPT !.escape = FALSE]
            ELSE IF c = BS THEN [st EXCEPT !.escape = TRUE]
            ELSE IF c = QT THEN [st EXCEPT !.inString = ~st.inString]
            ELSE IF st.inString THEN st
            ELSE IF c = LB THEN [st EXCEPT !.brackets = st.brackets + 1]
            ELSE IF c = RB THEN [st EXCEPT !.brackets = st.brackets - 1]
            ELSE IF c = LC THEN [st EXCEPT !.braces = st.braces + 1]
            ELSE IF c = RC THEN [st EXCEPT !.braces = st.braces - 1]
            ELSE st)

\* the loop of lines 142-162 without the escape flag of lines 144-151
RECURSIVE CountLoopNoEscape(_, _, _)
CountLoopNoEscape(s, i, st) ==
    IF i > Len(s) THEN st
    ELSE LET c == s[i] IN
         CountLoopNoEscape(s, i + 1,
            IF c = QT THEN [st EXCEPT !.inString = ~st.inString]
            ELSE IF st.inString THEN st
            ELSE IF c = LB THEN [st EXCEPT !.brackets = st.brackets + 1]
            ELSE IF c = RB THEN [st EXCEPT !.brackets = st.brackets - 1]
            ELSE IF c = LC THEN [st EXCEPT !.braces = st.braces + 1]
            ELSE IF c = RC THEN [st EXCEPT !.braces = st.braces - 1]
            ELSE st)

\* CountOpen with that loop
CountOpenNoEscape(s) ==
    CountLoopNoEscape(s, 1, [inString |-> FALSE, escape |-> FALSE,
                             brackets |-> 0, braces |-> 0])

CountOpen(s) ==
    CountLoop(s, 1, [inString |-> FALSE, escape |-> FALSE,
                     brackets |-> 0, braces |-> 0])

Repeat(c, n) == [i \in 1..Max(n, 0) |-> c]

\* CloseOpen closing the brackets before the braces
CloseOpenBracketsFirst(s) ==
    LET st == CountOpen(s) IN s \o Repeat(RB, st.brackets) \o Repeat(RC, st.braces)

\* lines 164-170: braces first, then brackets; a count <= 0 appends nothing
CloseOpen(s) ==
    LET st == CountOpen(s) IN s \o Repeat(RC, st.braces) \o Repeat(RB, st.brackets)

-----------------------------------------------------------------------------
(* Lines 175-215: the two fallbacks of the array shape *)

\* jsonStr.lastIndexOf('},') as a 1-based index of the brace, 0 when absent
RECURSIVE LastIndexOfBraceComma(_, _)
LastIndexOfBraceComma(s, i) ==
    IF i < 1 THEN 0
    ELSE IF At(s, i, RC) /\ At(s, i + 1, CM) THEN i
    ELSE LastIndexOfBraceComma(s, i - 1)

\* lines 179-183; the outcome is "return", "throw" or "skip" (the branch
\* of line 180 not taken)
LastCompleteElement(s) ==
    LET idx == LastIndexOfBraceComma(s, Len(s) - 1) IN
    IF idx - 1 > 0
    THEN LET r == JSONparse(Append(SubSeq(s, 1, idx), RB)) IN
         IF r.ok THEN [kind |-> "return", v |-> r.v]
         ELSE [kind |-> "throw", v |-> Null]
    ELSE [kind |-> "skip", v |-> Null]

\* lines 197-213: depth counts every brace, also those inside strings
RECURSIVE SalvageLoop(_, _, _, _, _)
SalvageLoop(s, i, depth, start, objects) ==
    IF i > Len(s) THEN objects
    ELSE LET c == s[i]
             start1 == IF c = LC /\ depth = 0 THEN i ELSE start
             depth1 == IF c = LC THEN depth + 1
                       ELSE IF c = RC THEN depth - 1 ELSE depth
         IN IF c = RC /\ depth1 = 0 /\ start1 # 0
            THEN LET r == JSONparse(SubSeq(s, start1, i)) IN
                 SalvageLoop(s, i + 1, depth1, 0,
                             IF r.ok THEN Append(objects, r.v) ELSE objects)
            ELSE SalvageLoop(s, i + 1, depth1, start1, objects)

SalvageObjects(s) == SalvageLoop(s, 1, 0, 0, <<>>)

-----------------------------------------------------------------------------
(* parseJSONSafely, lines 107-221.  The outcome is [kind, v] with kind     *)
(* "return" (v the value, Null for null) or "throw" (an exception leaves   *)
(* the function).                                                          *)

Return(val) == [kind |-> "return", v |-> val]
Throw == [kind |-> "throw", v |-> Null]

\* lines 111-118: "return" on success, "skip" when there is no match or the
\* catch of line 116 swallows the SyntaxError
DirectParse(text, isArray) ==
    LET match == IF isArray THEN GreedyMatch(text, LB, RB)
                 ELSE GreedyMatch(text, LC, RC)
    IN IF match = <<>> THEN [kind |-> "skip", v |-> Null]
       ELSE LET r == JSONparse(match) IN
            IF r.ok THEN Return(r.v) ELSE [kind |-> "skip", v |-> Null]

\* lines 121-170: the text handed to the parse of line 173
RepairedText(text, isArray) ==
    CloseOpen(TrimTail(TailMatch(text, IF isArray THEN LB ELSE LC)))

\* RepairFallbacks without the try of line 177: the SyntaxError of line 182
\* leaves the function
RepairFallbacksUncaught(jsonStr, isArray) ==
    LET last == IF isArray THEN LastCompleteElement(jsonStr)
                ELSE [kind |-> "skip", v |-> Null]
    IN IF last.kind = "return" THEN last
       ELSE IF last.kind = "throw" THEN Throw
       ELSE LET objects == IF isArray THEN SalvageObjects(jsonStr) ELSE <<>>
            IN IF Len(objects) > 0 THEN Return(JArr(objects)) ELSE Return(Null)

\* RepairFallbacks without the tests of isArray at lines 176 and 191
RepairFallbacksAnyShape(jsonStr, isArray) ==
    LET last == LastCompleteElement(jsonStr)
    IN IF last.kind = "return" THEN last
       ELSE LET objects == SalvageObjects(jsonStr)
            IN IF Len(objects) > 0 THEN Return(JArr(objects)) ELSE Return(Null)

\* lines 174-220: the handler of the SyntaxError of line 173
RepairFallbacks(jsonStr, isArray) ==
    LET last == IF isArray THEN LastCompleteElement(jsonStr)
                ELSE [kind |-> "skip", v |-> Null]
    IN IF last.kind = "return" THEN last
       ELSE \* catch (e2) of line 184, or line 180 not taken
            LET objects == IF isArray THEN SalvageObjects(jsonStr) ELSE <<>>
            IN IF Len(objects) > 0 THEN Return(JArr(objects)) ELSE Return(Null)

\* lines 172-220
RepairParse(jsonStr, isArray) ==
    LET r == JSONparse(jsonStr) IN
    IF r.ok THEN Return(r.v) ELSE RepairFallbacks(jsonStr, isArray)

\* parseJSONSafely with a strict parse of the whole text before line 111,
\* whatever the shape asked for
parseJSONSafelyWholeText(text, isArray) ==
    IF text = <<>> THEN Return(Null)
    ELSE IF JSONparse(text).ok THEN Return(JSONparse(text).v)
    ELSE LET direct == DirectParse(text, isArray) IN
         IF direct.kind = "return" THEN direct
         ELSE IF TailMatch(text, IF isArray THEN LB ELSE LC) = <<>>
              THEN Return(Null)
              ELSE RepairParse(RepairedText(text, isArray), isArray)

parseJSONSafely(text, isArray) ==
    IF text = <<>> THEN Return(Null)
    ELSE LET direct == DirectParse(text, isArray) IN
         IF direct.kind = "return" THEN direct
         ELSE IF TailMatch(text, IF isArray THEN LB ELSE LC) = <<>>
              THEN Return(Null)
              ELSE RepairParse(RepairedText(text, isArray), isArray)

-----------------------------------------------------------------------------
(* Table cells and JavaScript's coercions, as summarizeData uses them.     *)
(* A cell is [k, n]: k = "num" a number n (units of 0.0001), "nan" the     *)
(* NaN parseFloat('') gives, "str" a non-empty non-numeric text,           *)
(* "undef" a cell the row does not have.                                   *)

Num(n) == [k |-> "num", n |-> n]
NaN == [k |-> "nan", n |-> 0]
Str == [k |-> "str", n |-> 0]
Undefined == [k |-> "undef", n |-> 0]

NoCol == "undefined"

\* columns.<role>: the header detected for the role, undefined when none
Role(cols, role) == IF role \in DOMAIN cols THEN cols[role] ELSE NoCol

\* row[col]
Cell(row, col) == IF col \in DOMAIN row THEN row[col] ELSE Undefined

\* JavaScript truthiness: 0, NaN, '' and undefined are falsy
Truthy(c) == (c.k = "num" /\ c.n # 0) \/ c.k = "str"

\* c || d
OrElse(c, d) == IF Truthy(c) THEN c ELSE d

\* Math.abs(c): NaN for what is no number
Abs(c) == IF c.k = "num" THEN Num(IF c.n < 0 THEN -c.n ELSE c.n) ELSE NaN

\* c > n and c < n: false when c converts to NaN
Gt(c, n) == c.k = "num" /\ c.n > n
Lt(c, n) == c.k = "num" /\ c.n < n

FcThreshold == 5000     \* 0.5
PThreshold == 500       \* 0.05
DefaultFc == 0          \* row[fcCol] || 0
DefaultP == 10000       \* row[pCol] || 1
TopN == 10              \* slice(0, 10)
MaxFull == 50           \* slice(0, 50)

\* IsSignificant with >= and <= for the two comparisons
IsSignificantInclusive(row, fcCol, pCol) ==
    LET fc == Abs(OrElse(Cell(row, fcCol), Num(DefaultFc)))
        pv == OrElse(Cell(row, pCol), Num(DefaultP))
    IN Gt(fc, FcThreshold - 1) /\ Lt(pv, PThreshold + 1)

\* lines 230-234 (and the same predicate at line 354)
IsSignificant(row, fcCol, pCol) ==
    LET fc == Abs(OrElse(Cell(row, fcCol), Num(DefaultFc)))
        pv == OrElse(Cell(row, pCol), Num(DefaultP))
    IN Gt(fc, FcThreshold) /\ Lt(pv, PThreshold)

\* data.filter(pred), pred a set of rows
RECURSIVE Filter(_, _)
Filter(rows, keep) ==
    IF rows = <<>> THEN <<>>
    ELSE IF Head(rows) \in keep THEN <<Head(rows)>> \o Filter(Tail(rows), keep)
    ELSE Filter(Tail(rows), keep)

RowSet(rows) == {rows[i] : i \in 1..Len(rows)}

\* [...rows].sort((a, b) => sign * (a[fcCol] - b[fcCol])): stable; sign is
\* 1 for ascending and -1 for descending
RECURSIVE InsertSorted(_, _, _, _)
InsertSorted(x, sorted, fcCol, sign) ==
    IF sorted = <<>> THEN <<x>>
    ELSE IF sign * (Cell(Head(sorted), fcCol).n - Cell(x, fcCol).n) <= 0
         THEN <<Head(sorted)>> \o InsertSorted(x, Tail(sorted), fcCol, sign)
         ELSE <<x>> \o sorted

RECURSIVE SortRows(_, _, _)
SortRows(rows, fcCol, sign) ==
    IF rows = <<>> THEN <<>>
    ELSE InsertSorted(rows[Len(rows)],
                      SortRows(SubSeq(rows, 1, Len(rows) - 1), fcCol, sign),
                      fcCol, sign)

\* rows.slice(0, n)
Slice(rows, n) == SubSeq(rows, 1, Min(n, Len(rows)))

\* line 236 comparing with 1 instead of 0
IncreasedAboveOne(significant, fcCol) ==
    Filter(significant, {r \in RowSet(significant) : Gt(Cell(r, fcCol), DefaultP)})

\* line 236
Increased(significant, fcCol) ==
    Filter(significant, {r \in RowSet(significant) : Gt(Cell(r, fcCol), 0)})

\* line 237
Decreased(significant, fcCol) ==
    Filter(significant, {r \in RowSet(significant) : Lt(Cell(r, fcCol), 0)})

\* line 239 without the sort
TopIncreasedUnsorted(increased, fcCol) == Slice(increased, TopN)

\* line 239
TopIncreased(increased, fcCol) == Slice(SortRows(increased, fcCol, -1), TopN)

\* line 240
TopDecreased(decreased, fcCol) == Slice(SortRows(decreased, fcCol, 1), TopN)

\* lines 223-251; dat is Null or [t |-> "rows", v |-> the rows]
summarizeData(dat, cols) ==
    IF dat.t = "null" \/ Len(dat.v) = 0 THEN Null
    ELSE LET fcCol == Role(cols, "foldChange")
             pCol == Role(cols, "pValue")
             significant ==
                 Filter(dat.v, {r \in RowSet(dat.v) : IsSignificant(r, fcCol, pCol)})
             increased == Increased(significant, fcCol)
             decreased == Decreased(significant, fcCol)
         IN [t |-> "summary",
             v |-> [total |-> Len(dat.v),
                    significant |-> Len(significant),
                    increased |-> Len(increased),
                    decreased |-> Len(decreased),
                    topIncreased |-> TopIncreased(increased, fcCol),
                    topDecreased |-> TopDecreased(decreased, fcCol),
                    columns |-> cols]]

\* FullSignificant without the filter of line 354
FullUnfiltered(rows, cols) == Slice(rows, MaxFull)

\* the rows of the FULL SIGNIFICANT METABOLITES DATA block, lines 354-355
FullSignificant(rows, cols) ==
    Slice(Filter(rows, {r \in RowSet(rows) :
                          IsSignificant(r, Role(cols, "foldChange"),
                                        Role(cols, "pValue"))}),
          MaxFull)

\* lines 331-360: the context, as the values its template renders; the
\* empty context is [t |-> "empty"]
\* c?.toFixed(n), c?.toExponential(n) (lines 345, 350, 356): undefined for
\* undefined, a numeral for a number (NaN too); a string has no such method
\* and the call raises a TypeError
Formats(c) == c.k # "str"

\* the template of lines 345, 350 and 356 on one row
RowFormats(row, cols) ==
    /\ Formats(Cell(row, Role(cols, "foldChange")))
    /\ Formats(Cell(row, Role(cols, "pValue")))

\* the rows that buildContext formats
Formatted(dat, summ, cols) ==
    RowSet(summ.v.topIncreased) \cup RowSet(summ.v.topDecreased)
        \cup RowSet(FullSignificant(dat.v, cols))

buildContext(dat, summ, cols) ==
    IF dat.t = "null" \/ summ.t = "null" THEN [t |-> "empty", v |-> <<>>]
    ELSE IF \E r \in Formatted(dat, summ, cols) : ~RowFormats(r, cols)
    THEN [t |-> "throw", v |-> <<>>]
    ELSE [t |-> "context",
          v |-> [total |-> summ.v.total,
                 significant |-> summ.v.significant,
                 increased |-> summ.v.increased,
                 decreased |-> summ.v.decreased,
                 topIncreased |-> summ.v.topIncreased,
                 topDecreased |-> summ.v.topDecreased,
                 full |-> FullSignificant(dat.v, cols)]]

-----------------------------------------------------------------------------
(* Inputs of the extractor: response texts *)

MaxLen == 4         \* longest arbitrary text
MaxElems == 2       \* most elements of a generated array

Alphabet == {LB, RB, LC, RC, QT, CM, CL, BS, SP, "a", "1"}

Key(k) == <<QT, k, QT>>
Pair(k, val) == Key(k) \o <<CL>> \o val
Obj1(p) == <<LC>> \o p \o <<RC>>
Obj2(p, q) == <<LC>> \o p \o <<CM>> \o q \o <<RC>>

\* {"a":1}  {"a":2}  {"a":1,"x":"a"}: flat objects
EOne == Obj1(Pair("a", <<"1">>))
ETwo == Obj1(Pair("a", <<"2">>))
EFlat == Obj2(Pair("a", <<"1">>), Pair("x", <<QT, "a", QT>>))
\* {"a":{"x":1},"x":12}: a nested object before a number
ENested == Obj2(Pair("a", Obj1(Pair("x", <<"1">>))), Pair("x", <<"1", "2">>))
\* {"a":"}","x":"a"}: flat, a brace inside a string value
EBrace == Obj2(Pair("a", <<QT, RC, QT>>), Pair("x", <<QT, "a", QT>>))
\* {"a":[1,2]}: a nested array
EArray == Obj1(Pair("a", <<LB, "1", CM, "2", RB>>))

ElemTexts == {EOne, ETwo, EFlat, ENested, EBrace, EArray}
FlatElems == {EOne, ETwo, EFlat, EBrace}
\* flat objects with no bracket or brace character inside a string
PlainElems == {EOne, ETwo, EFlat}

RECURSIVE Join(_)
Join(es) ==
    IF Len(es) = 0 THEN <<>>
    ELSE IF Len(es) = 1 THEN es[1]
    ELSE es[1] \o <<CM>> \o Join(Tail(es))

\* JSON.stringify of an array of the elements
ArrayText(es) == <<LB>> \o Join(es) \o <<RB>>

\* prose around a response's JSON
ProseBefore == {<<>>, <<"a", CL, SP>>, <<"a", LB, "1", RB, SP>>,
                <<LC, "a", RC, SP>>, <<RB, SP>>, <<RC>>, <<LB>>, <<LC>>}
ProseAfter == {<<>>, <<SP, "a">>, <<SP, LB, "1", RB>>, <<LC, "a", RC>>,
               <<RB>>, <<RC>>, <<LB>>, <<LC>>}

BuiltText(pre, json, cut, post) == pre \o SubSeq(json, 1, cut) \o post

ExtractArg(fam, pre, json, elems, cut, post, isArray) ==
    [fn |-> "extract", fam |-> fam, pre |-> pre, json |-> json,
     elems |-> elems, cut |-> cut, post |-> post, isArray |-> isArray,
     text |-> BuiltText(pre, json, cut, post)]

\* arbitrary texts
AnyArg(a) ==
    \E n \in 0..MaxLen : \E t \in [1..n -> Alphabet], b \in BOOLEAN :
        a = ExtractArg("any", <<>>, t, <<>>, Len(t), <<>>, b)

\* a JSON array of objects cut at any offset, after optional prose
TruncArg(a) ==
    \E k \in 1..MaxElems : \E es \in [1..k -> ElemTexts] :
        \E pre \in {<<>>, <<"a", CL, SP>>}, b \in BOOLEAN :
            \E n \in 1..Len(ArrayText(es)) :
                a = ExtractArg("trunc", pre, ArrayText(es), es, n, <<>>, b)

\* a well-formed JSON array or object inside prose
EmbedArg(a) ==
    \E pre \in ProseBefore, post \in ProseAfter :
        \/ \E k \in 1..MaxElems : \E es \in [1..k -> ElemTexts] :
              a = ExtractArg("embed", pre, ArrayText(es), es,
                             Len(ArrayText(es)), post, TRUE)
        \/ \E e \in ElemTexts :
              a = ExtractArg("embed", pre, e, <<e>>, Len(e), post, FALSE)

NoCall == [kind |-> "none", v |-> Null]

-----------------------------------------------------------------------------
(* Inputs of the summarizer: parsed tables *)

MaxRows == 2        \* most rows of a table of arbitrary cells
MaxExtra == 1       \* rows beyond TopN of a table of significant rows

\* cells of the effect-size column and of the significance column
FcCells == {Num(-15000), Num(-5000), Num(0), Num(5000), Num(8000), Num(23000),
            NaN, Str, Undefined}
PCells == {Num(0), Num(1), Num(500), NaN, Str, Undefined}

\* a parsed row: every header of the file is a key (parseCSV, line 80)
Row(fc, pv) == [name |-> Str, fc |-> fc, p |-> pv]

AnyRows == {Row(fc, pv) : fc \in FcCells, pv \in PCells}

\* headers of the files: one per role pattern of detectColumns (lines
\* 89-91) and one that matches no pattern
Headers == {"name", "fc", "p", "x"}

\* pattern.test(h), lines 88-93, on Headers
PatternTest(role, h) ==
    \/ role = "metabolite" /\ h = "name"
    \/ role = "foldChange" /\ h = "fc"
    \/ role = "pValue" /\ h = "p"

\* lines 87-104: each role gets the first header its pattern matches
detectColumns(headers) ==
    LET hit(role) == {i \in 1..Len(headers) : PatternTest(role, headers[i])}
        found == {role \in {"metabolite", "foldChange", "pValue", "pathway"} :
                    hit(role) # {}}
    IN [role \in found |->
           headers[CHOOSE i \in hit(role) : \A j \in hit(role) : i <= j]]

AllRoles == detectColumns(<<"name", "fc", "p">>)
\* the effect-size column, or the significance column, under a header no
\* pattern matches
NoFcRole == detectColumns(<<"name", "x", "p">>)
NoPRole == detectColumns(<<"name", "fc", "x">>)

Rows(seq) == [t |-> "rows", v |-> seq]

\* a table of at most MaxRows rows of arbitrary cells, any detected roles
ShortArg(a) ==
    \E n \in 0..MaxRows : \E t \in [1..n -> AnyRows] :
        \E c \in {AllRoles, NoFcRole, NoPRole} :
            a = [fn |-> "summarize", data |-> Rows(t), columns |-> c]

\* a table with more significant rows of one direction than a top list holds
LongArg(a) ==
    \E n \in (TopN + 1)..(TopN + MaxExtra) :
        \E f \in [1..n -> {8000, 23000}], sign \in {1, -1} :
            a = [fn |-> "summarize", columns |-> AllRoles,
                 data |-> Rows([i \in 1..n |-> Row(Num(sign * f[i]), Num(1))])]

-----------------------------------------------------------------------------
(* React state, lines 256-269.  null is Null; a string s held where null   *)
(* may be held is Msg(s).                                                  *)

Msg(str) == [t |-> "str", v |-> <<str>>]

\* HYPOTHESIS_TYPES ids (lines 57-70): one with a fixed prompt, and custom
TypeIds == {"mechanisms", "custom"}
NoType == "null"

Tabs == {"upload", "analyze", "generate", "results", "experimental", "settings"}

Workflows == {"hypotheses", "experimental", "literature"}

\* an invocation: st is "idle" (never invoked), "await" (suspended at the
\* await of callClaudeAPI), "done" or "failed" (the catch block ran);
\* until it is done, before is the workflow's result slot when it was
\* invoked and title the hypothesis.title generateExperimentalDesign got
JUndefined == [t |-> "undefined", v |-> <<>>]
Invocation(st, before, title) == [st |-> st, before |-> before, title |-> title]
Idle == Invocation("idle", Null, JUndefined)
Done == Invocation("done", Null, JUndefined)

AppInit ==
    /\ apiKey = ""
    /\ data = Null
    /\ columns = <<>>
    /\ summary = Null
    /\ selectedType = NoType
    /\ customPrompt = ""
    /\ hypotheses = Null
    /\ experimentalDesign = Null
    /\ literatureAnalysis = Null
    /\ loading = [hypotheses |-> FALSE, experimental |-> FALSE,
                  literature |-> FALSE]
    /\ error = Null
    /\ activeTab = "upload"
    /\ pending = [w \in Workflows |-> Idle]
    /\ inflight = [w \in Workflows |-> 0]

-----------------------------------------------------------------------------
(* The extractor called on a response text *)

InitExtract ==
    /\ AnyArg(arg) \/ TruncArg(arg) \/ EmbedArg(arg)
    /\ ret = NoCall
    /\ AppInit

CallParseJSONSafely ==
    /\ arg.fn = "extract"
    /\ ret.kind = "none"
    /\ ret' = parseJSONSafely(arg.text, arg.isArray)
    /\ UNCHANGED <<arg, appVars>>

NextExtract == CallParseJSONSafely

SpecExtract == InitExtract /\ [][NextExtract]_vars

-----------------------------------------------------------------------------
(* Properties of the extractor *)

Called == ret.kind # "none"

\* the elements of the generated array, each strict-parsed on its own
Orig(es) == [i \in 1..Len(es) |-> JSONparse(es[i]).v]

IsPrefixOf(a, b) ==
    Len(a) <= Len(b) /\ \A i \in 1..Len(a) : JEq(a[i], b[i])

\* C2: parseJSONSafely never raises an error: for every text and both
\* shapes the call returns, and what it returns is null, an array or an
\* object.
C2_NeverThrows ==
    (arg.fn = "extract" /\ Called) =>
        ret.kind = "return" /\ ret.v.t \in {"null", "arr", "obj"}

\* a text with more closers than openers was handled and gave null
C2_Witness ==
    /\ arg.fn = "extract" /\ Called
    /\ arg.text = <<LB, RC, CM, "1">>
    /\ ret.kind = "return" /\ ret.v.t = "null"

\* the text is a generated array cut strictly after its first element
C3_Case ==
    /\ arg.fn = "extract" /\ arg.fam = "trunc"
    /\ arg.pre = <<>> /\ arg.isArray
    /\ arg.cut > 1 + Len(arg.elems[1])

\* C3: for a valid JSON array of objects cut strictly after its first
\* complete element, the array-shape result is a non-null sequence whose
\* elements are a prefix of the original elements.
C3_PrefixOfOriginal ==
    (C3_Case /\ Called) =>
        /\ ret.kind = "return"
        /\ ret.v.t = "arr"
        /\ IsPrefixOf(ret.v.v, Orig(arg.elems))

\* the generated array is P + J + S with J untruncated
C4_Case == arg.fn = "extract" /\ arg.fam = "embed"

C4_RoundTrip == ret.kind = "return" /\ JEq(ret.v, JSONparse(arg.json).v)

\* C4 as claimed: for every prose P and S, also prose holding brackets or
\* braces, extract(P + J + S) equals the strict parse of J.
C4_AnyProse == (C4_Case /\ Called) => C4_RoundTrip

\* C4 amended: the round trip holds when P holds no opener of the shape's
\* kind and S holds no closer of the shape's kind.
C4_ProseWithoutShapeBrackets ==
    (/\ C4_Case /\ Called
     /\ NoneFrom(arg.pre, 1, {IF arg.isArray THEN LB ELSE LC})
     /\ NoneFrom(arg.post, 1, {IF arg.isArray THEN RB ELSE RC}))
    => C4_RoundTrip

\* an array of two elements between bracket-free prose came back whole
C4_Witness ==
    /\ C4_Case /\ Called /\ arg.isArray
    /\ arg.pre = <<"a", CL, SP>> /\ arg.post = <<SP, "a">>
    /\ Len(arg.elems) = 2
    /\ ret.kind = "return" /\ ret.v.t = "arr" /\ Len(ret.v.v) = 2

\* the index of the quote that opens the string the text ends in, 0 when
\* the text ends outside a string
RECURSIVE OpenQuote(_, _, _, _)
OpenQuote(s, i, escape, open) ==
    IF i > Len(s) THEN open
    ELSE IF escape THEN OpenQuote(s, i + 1, FALSE, open)
    ELSE IF s[i] = BS THEN OpenQuote(s, i + 1, TRUE, open)
    ELSE IF s[i] = QT THEN OpenQuote(s, i + 1, FALSE, IF open = 0 THEN i ELSE 0)
    ELSE OpenQuote(s, i + 1, FALSE, open)

\* the text ends inside a string that is a member's value
EndsInStringValue(s) ==
    LET q == OpenQuote(s, 1, FALSE, 0) IN q > 1 /\ s[q - 1] = CL

\* k >= 1 complete flat objects, a comma, and a further flat object cut
\* inside a string value
C5_Case ==
    /\ arg.fn = "extract" /\ arg.fam = "trunc"
    /\ arg.pre = <<>> /\ arg.isArray
    /\ Len(arg.elems) >= 2
    /\ \A i \in 1..Len(arg.elems) : arg.elems[i] \in FlatElems
    /\ arg.cut > Len(ArrayText(SubSeq(arg.elems, 1, Len(arg.elems) - 1)))
    /\ arg.cut < Len(arg.json)
    /\ EndsInStringValue(arg.text)

\* C5: the result is exactly the k complete objects, in order, and nothing
\* derived from the incomplete last object.
C5_ExactlyTheComplete ==
    (C5_Case /\ Called) =>
        /\ ret.kind = "return"
        /\ JEq(ret.v, JArr(Orig(SubSeq(arg.elems, 1, Len(arg.elems) - 1))))

\* optional prose, '[', and one flat object that is never closed: no closing
\* bracket or brace anywhere in the text
C6_Case ==
    /\ arg.fn = "extract" /\ arg.fam = "trunc" /\ arg.isArray
    /\ Len(arg.elems) = 1 /\ arg.elems[1] \in PlainElems
    /\ arg.cut >= 2 /\ arg.cut <= Len(arg.elems[1])

\* every pair of the unfinished object is complete, only the closers miss
C6_OnlyClosersMissing == arg.cut = Len(arg.elems[1])

Trimmed == TrimTail(TailMatch(arg.text, IF arg.isArray THEN LB ELSE LC))

\* the call reaches the truncation repair: the direct parse gave nothing and
\* line 122 did not return
RepairReached ==
    /\ arg.fn = "extract" /\ Called /\ arg.text # <<>>
    /\ DirectParse(arg.text, arg.isArray).kind # "return"
    /\ TailMatch(arg.text, IF arg.isArray THEN LB ELSE LC) # <<>>

\* every order of nk closing braces and nb closing brackets
Orderings(nk, nb) ==
    {o \in [1..(Max(nk, 0) + Max(nb, 0)) -> {RC, RB}] :
        Cardinality({i \in DOMAIN o : o[i] = RC}) = Max(nk, 0)}

\* C21: the order of the appended closers does not matter: when some order
\* of the missing '}' and ']' makes the trimmed text strict-parse, the
\* order of lines 164-170 (every '}', then every ']') strict-parses too and
\* gives the same value.
C21_OrderOfClosersIrrelevant ==
    RepairReached =>
        \A o \in Orderings(CountOpen(Trimmed).braces, CountOpen(Trimmed).brackets) :
            JSONparse(Trimmed \o o).ok =>
                /\ JSONparse(CloseOpen(Trimmed)).ok
                /\ JEq(JSONparse(CloseOpen(Trimmed)).v, JSONparse(Trimmed \o o).v)

\* the call reaches the per-element salvage of lines 189-215: the parse of
\* line 173 failed and the fallback of lines 177-186 returned nothing
SalvageReached ==
    /\ RepairReached /\ arg.isArray
    /\ ~JSONparse(RepairedText(arg.text, TRUE)).ok
    /\ LastCompleteElement(RepairedText(arg.text, TRUE)).kind # "return"

\* C22: the per-element salvage returns every complete top-level object of
\* the array that strict-parses on its own, also an object whose string
\* values hold brace characters: braces inside string literals do not
\* change the depth.
C22_SalvageSkipsStrings ==
    (SalvageReached /\ arg.fam = "embed") =>
        /\ ret.kind = "return" /\ ret.v.t = "arr"
        /\ \A i \in 1..Len(arg.elems) :
              \E j \in 1..Len(ret.v.v) : JEq(ret.v.v[j], Orig(arg.elems)[i])

\* the number of backslashes that stand directly before position i
BackslashRun(s, i) ==
    Cardinality({k \in 1..(i - 1) : \A m \in k..(i - 1) : s[m] = BS})

\* the character at i follows a backslash that is not itself escaped
Escaped(s, i) == BackslashRun(s, i) % 2 = 1

\* position i lies inside a string literal: an odd number of quotes that
\* are not escaped stand before it
InsideString(s, i) ==
    Cardinality({k \in 1..(i - 1) : s[k] = QT /\ ~Escaped(s, k)}) % 2 = 1

\* the occurrences of c outside string literals, and those of them that
\* are not escaped
Outside(s, c) == {i \in 1..Len(s) : s[i] = c /\ ~InsideString(s, i)}
OutsideUnescaped(s, c) == {i \in Outside(s, c) : ~Escaped(s, i)}

\* C23 as stated: the repair appends max(0, n) closing braces and
\* max(0, m) closing brackets, n and m the net counts of the braces and of
\* the brackets that stand outside string literals in the trimmed text.
C23_NetCountOutsideStrings ==
    RepairReached =>
        CloseOpen(Trimmed) =
            Trimmed
            \o Repeat(RC, Cardinality(Outside(Trimmed, LC))
                             - Cardinality(Outside(Trimmed, RC)))
            \o Repeat(RB, Cardinality(Outside(Trimmed, LB))
                             - Cardinality(Outside(Trimmed, RB)))

\* C23, amended: the net counts are those of the braces and brackets that
\* stand outside string literals and are not escaped; a character after an
\* unescaped backslash is skipped inside and outside string literals, so an
\* escaped quote toggles nothing and an escaped bracket is not counted.
C23_NetCountOfUnescaped ==
    RepairReached =>
        CloseOpen(Trimmed) =
            Trimmed
            \o Repeat(RC, Cardinality(OutsideUnescaped(Trimmed, LC))
                             - Cardinality(OutsideUnescaped(Trimmed, RC)))
            \o Repeat(RB, Cardinality(OutsideUnescaped(Trimmed, LB))
                             - Cardinality(OutsideUnescaped(Trimmed, RB)))

\* '["]"': the bracket inside the string is not counted, one ']' is
\* appended and the array of the string ']' comes back
C23_Witness ==
    /\ RepairReached
    /\ arg.text = <<LB, QT, RB, QT>>
    /\ CloseOpen(Trimmed) = <<LB, QT, RB, QT, RB>>
    /\ ret.kind = "return" /\ ret.v.t = "arr" /\ Len(ret.v.v) = 1

\* neither the direct match nor the repaired text strict-parses
NothingParses ==
    /\ arg.fn = "extract" /\ Called /\ arg.text # <<>>
    /\ DirectParse(arg.text, arg.isArray).kind # "return"
    /\ \/ TailMatch(arg.text, IF arg.isArray THEN LB ELSE LC) = <<>>
       \/ ~JSONparse(RepairedText(arg.text, arg.isArray)).ok

\* C24: with object shape the two fallbacks are not applied: when neither
\* the direct match nor the repaired text strict-parses, the call returns
\* null, also for a text that holds complete objects.
C24_ObjectShapeNoFallback ==
    (NothingParses /\ ~arg.isArray) => ret.kind = "return" /\ ret.v.t = "null"

\* '{a} {"a":{"x":1},"x":12}' with object shape: the text holds a complete
\* object with a nested one, and the call returned null
C24_Witness ==
    /\ NothingParses /\ ~arg.isArray
    /\ arg.fam = "embed"
    /\ arg.pre = <<LC, "a", RC, SP>> /\ arg.elems = <<ENested>> /\ arg.post = <<>>
    /\ Len(SalvageObjects(RepairedText(arg.text, FALSE))) = 1
    /\ ret.kind = "return" /\ ret.v.t = "null"

\* what the extractor returns has the shape asked for: null or an array
\* for the array shape, null or an object for the object shape
C28_ExtractShape ==
    (arg.fn = "extract" /\ Called) =>
        /\ ret.kind = "return"
        /\ ret.v.t \in {"null", IF arg.isArray THEN "arr" ELSE "obj"}

-----------------------------------------------------------------------------
(* The summarizer and the context builder called on a parsed table *)

InitSummarize ==
    /\ ShortArg(arg) \/ LongArg(arg)
    /\ ret = NoCall
    /\ AppInit

CallSummarizeData ==
    /\ arg.fn = "summarize"
    /\ ret.kind = "none"
    /\ ret' = [kind |-> "return", v |-> summarizeData(arg.data, arg.columns)]
    /\ UNCHANGED <<arg, appVars>>

\* buildContext with the table and its summary as the session state
CallBuildContext ==
    /\ arg.fn = "summarize"
    /\ ret.kind = "return"
    /\ ret' = [kind |-> "context", v |-> ret.v,
               ctx |-> buildContext(arg.data, ret.v, arg.columns)]
    /\ UNCHANGED <<arg, appVars>>

NextSummarize == CallSummarizeData \/ CallBuildContext

SpecSummarize == InitSummarize /\ [][NextSummarize]_vars

-----------------------------------------------------------------------------
(* Properties of the summarizer *)

Summarized ==
    arg.fn = "summarize" /\ ret.kind \in {"return", "context"} /\ ret.v.t = "summary"

FcOf(row) == Cell(row, Role(arg.columns, "foldChange"))
POf(row) == Cell(row, Role(arg.columns, "pValue"))

RowIdx == 1..Len(arg.data.v)

\* the significance predicate as claimed: the default stands in for a
\* missing field only, a present number is used as it is
ClaimedSignificant(row) ==
    LET fc == IF FcOf(row).k = "undef" THEN Num(DefaultFc) ELSE FcOf(row)
        pv == IF POf(row).k = "undef" THEN Num(DefaultP) ELSE POf(row)
    IN Gt(Abs(fc), FcThreshold) /\ Lt(pv, PThreshold)

\* C7: summarize counts a row as significant if and only if
\* abs(effectSize) > 0.5 and significance < 0.05, a default replacing a
\* missing field only (a present significance of exactly 0 is used as 0).
C7_SignificantIff ==
    Summarized =>
        ret.v.v.significant =
            Cardinality({i \in RowIdx : ClaimedSignificant(arg.data.v[i])})

\* the rows summarizeData's filter keeps
SigIdx == {i \in RowIdx : IsSignificant(arg.data.v[i],
                               Role(arg.columns, "foldChange"),
                               Role(arg.columns, "pValue"))}

\* C8: for every non-empty row set and every column roles the summary
\* exists and has increased + decreased = significant, significant <= total,
\* total the number of rows, increased (decreased) the number of significant
\* rows with effectSize > 0 (< 0).
C8_CountsAddUp ==
    (arg.fn = "summarize" /\ ret.kind # "none" /\ Len(arg.data.v) > 0) =>
        /\ ret.v.t = "summary"
        /\ ret.v.v.increased + ret.v.v.decreased = ret.v.v.significant
        /\ ret.v.v.significant <= ret.v.v.total
        /\ ret.v.v.total = Len(arg.data.v)
        /\ ret.v.v.increased =
              Cardinality({i \in SigIdx : Gt(FcOf(arg.data.v[i]), 0)})
        /\ ret.v.v.decreased =
              Cardinality({i \in SigIdx : Lt(FcOf(arg.data.v[i]), 0)})

\* scenario A: one decreased and one increased significant row
C8_Witness ==
    /\ Summarized
    /\ arg.data.v = <<Row(Num(-15000), Num(1)), Row(Num(23000), Num(1))>>
    /\ ret.v.v.significant = 2 /\ ret.v.v.increased = 1 /\ ret.v.v.decreased = 1

\* top is ordered by sign * effectSize, holds Min(TopN, count) significant
\* rows, and no significant row of that direction outside it is more extreme
\* than its last row
TopListOk(top, count, sign) ==
    /\ Len(top) = Min(TopN, count)
    /\ \A i \in 1..(Len(top) - 1) :
          sign * FcOf(top[i]).n <= sign * FcOf(top[i + 1]).n
    /\ \A i \in 1..Len(top) :
          \E j \in SigIdx : arg.data.v[j] = top[i] /\ sign * FcOf(top[i]).n < 0
    /\ \A j \in SigIdx :
          LET r == arg.data.v[j] IN
          (sign * FcOf(r).n < 0 /\ r \notin RowSet(top)) =>
              /\ Len(top) = TopN
              /\ sign * FcOf(top[Len(top)]).n <= sign * FcOf(r).n

\* C9: topIncreased has length min(10, increased) and non-increasing
\* effectSize, topDecreased has length min(10, decreased) and non-decreasing
\* effectSize, and no significant row left out of a top list is more
\* extreme than a row in it.
C9_TopLists ==
    Summarized =>
        /\ TopListOk(ret.v.v.topIncreased, ret.v.v.increased, -1)
        /\ TopListOk(ret.v.v.topDecreased, ret.v.v.decreased, 1)

\* eleven increased rows, the smaller effect first: ten are kept, in order
C9_Witness ==
    /\ Summarized
    /\ ret.v.v.increased = TopN + 1
    /\ Len(ret.v.v.topIncreased) = TopN
    /\ FcOf(arg.data.v[1]).n = 8000
    /\ FcOf(ret.v.v.topIncreased[1]).n = 23000
    /\ FcOf(ret.v.v.topIncreased[TopN]).n = 8000

\* an effectSize of exactly 0.5 or -0.5, or a significance of exactly 0.05
OnThreshold(row) ==
    \/ FcOf(row) = Num(FcThreshold)
    \/ FcOf(row) = Num(-FcThreshold)
    \/ POf(row) = Num(PThreshold)

\* C10: a row on a threshold is never counted as significant and never
\* appears in topIncreased, topDecreased or the context's block of
\* significant rows.
C10_ThresholdExcluded ==
    (Summarized /\ ret.kind = "context") =>
        /\ ret.v.v.significant =
              Cardinality({i \in SigIdx : ~OnThreshold(arg.data.v[i])})
        /\ \A r \in RowSet(ret.v.v.topIncreased) \cup RowSet(ret.v.v.topDecreased)
                    \cup RowSet(ret.ctx.v.full) : ~OnThreshold(r)

\* a row with effectSize 0.5 and a row with significance 0.05: none counted
C10_Witness ==
    /\ Summarized /\ ret.kind = "context"
    /\ arg.columns = AllRoles
    /\ arg.data.v = <<Row(Num(5000), Num(1)), Row(Num(23000), Num(500))>>
    /\ ret.v.v.significant = 0
    /\ ret.ctx.v.full = <<>>

\* C20: buildContext raises no error on the rows, roles and summary that an
\* upload stores: it returns a string, and every row it formats with
\* toFixed and toExponential has a number as its effectSize and as its
\* significance.
C20_ContextNeverRaises ==
    (arg.fn = "summarize" /\ ret.kind = "context") =>
        /\ ret.ctx.t \in {"empty", "context"}
        /\ ret.ctx.t = "context" =>
              \A r \in Formatted(arg.data, ret.v, arg.columns) :
                  FcOf(r).k = "num" /\ POf(r).k = "num"

\* a row with text as its effectSize, and a significant row that is
\* formatted
C20_Witness ==
    /\ arg.fn = "summarize" /\ ret.kind = "context"
    /\ arg.columns = AllRoles
    /\ arg.data.v = <<Row(Str, Num(1)), Row(Num(23000), Num(1))>>
    /\ ret.ctx.t = "context"
    /\ ret.ctx.v.full = <<Row(Num(23000), Num(1))>>

-----------------------------------------------------------------------------
(* The component: event handlers and the three request workflows *)

\* File text is a sequence of separator characters (newline, comma, space,
\* double quote) and words; a word stands for a run of other characters: a
\* header name, a numeral, or the non-numeric text "abc"
NL == "\n"
Blank == {SP, NL}

\* the numerals of the files, with Number(w) in units of 0.0001
Numerals == {"2.3", "-1.5", "0.8", "0.0001", "0"}
NumberOf(w) ==
    CASE w = "2.3" -> 23000
      [] w = "-1.5" -> -15000
      [] w = "0.8" -> 8000
      [] w = "0.0001" -> 1
      [] w = "0" -> 0

\* s.trim()
RECURSIVE TrimLeft(_)
TrimLeft(s) == IF s # <<>> /\ Head(s) \in Blank THEN TrimLeft(Tail(s)) ELSE s

RECURSIVE TrimRight(_)
TrimRight(s) ==
    IF s # <<>> /\ s[Len(s)] \in Blank
    THEN TrimRight(SubSeq(s, 1, Len(s) - 1)) ELSE s

Trim(s) == TrimRight(TrimLeft(s))

\* s.split(sep): always at least one piece
RECURSIVE Split(_, _, _, _)
Split(s, sep, piece, done) ==
    IF s = <<>> THEN Append(done, piece)
    ELSE IF Head(s) = sep THEN Split(Tail(s), sep, <<>>, Append(done, piece))
    ELSE Split(Tail(s), sep, Append(piece, Head(s)), done)

\* s.replace(/"/g, '')
RECURSIVE StripQuotes(_)
StripQuotes(s) ==
    IF s = <<>> THEN <<>>
    ELSE IF Head(s) = QT THEN StripQuotes(Tail(s))
    ELSE <<Head(s)>> \o StripQuotes(Tail(s))

\* line.split(',').map(v => v.trim().replace(/"/g, '')), lines 75 and 77
Fields(line) ==
    LET parts == Split(line, CM, <<>>, <<>>)
    IN [i \in 1..Len(parts) |-> StripQuotes(Trim(parts[i]))]

\* a header field as the key of a row: '' for the empty field
HeaderName(field) ==
    IF field = <<>> THEN "" ELSE IF Len(field) = 1 THEN field[1] ELSE "other"

\* line 80: isNaN(values[i]) ? values[i] : parseFloat(values[i]); a row
\* shorter than the header has values[i] undefined, '' is not NaN to isNaN
\* and parseFloat('') is NaN
CellOf(values, i) ==
    IF i > Len(values) THEN Undefined
    ELSE IF values[i] = <<>> THEN NaN
    ELSE IF Len(values[i]) = 1 /\ values[i][1] \in Numerals
         THEN Num(NumberOf(values[i][1]))
    ELSE Str

\* lines 76-83: a later header of the same name overwrites the cell
RowOf(headers, values) ==
    LET last(h) == CHOOSE i \in 1..Len(headers) :
                       /\ headers[i] = h
                       /\ \A j \in 1..Len(headers) : headers[j] = h => j <= i
    IN [h \in {headers[i] : i \in 1..Len(headers)} |-> CellOf(values, last(h))]

\* lines 73-85
parseCSV(text) ==
    LET lines == Split(Trim(text), NL, <<>>, <<>>)
        fields == Fields(lines[1])
        headers == [i \in 1..Len(fields) |-> HeaderName(fields[i])]
    IN [headers |-> headers,
        data |-> [i \in 1..(Len(lines) - 1) |->
                     RowOf(headers, Fields(lines[i + 1]))]]

RECURSIVE Lines(_)
Lines(ls) ==
    IF Len(ls) = 0 THEN <<>>
    ELSE IF Len(ls) = 1 THEN ls[1]
    ELSE ls[1] \o <<NL>> \o Lines(Tail(ls))

\* name,fc,p with an increased, a decreased and a zero-significance row
FTable ==
    Lines(<<<<"name", CM, "fc", CM, "p">>,
            <<"abc", CM, "2.3", CM, "0.0001">>,
            <<"abc", CM, "-1.5", CM, SP, "0.0001">>,
            <<QT, "abc", QT, CM, "0.8", CM, "0">>>>)
\* an empty cell, a short row and non-numeric cells
FRagged ==
    Lines(<<<<"name", CM, "fc", CM, "p">>,
            <<"abc", CM, CM, "0.0001">>,
            <<"abc", CM, "abc">>,
            <<"abc", CM, "2.3", CM, "abc">>>>)
\* empty content and whitespace-only content
FEmpty == <<>>
FBlank == <<SP, NL, SP>>

\* contents of the files offered to processFile
Files == {FTable, FRagged, FEmpty, FBlank}

\* response texts of the completion service
ResponseTexts ==
    {ArrayText(<<<<LC, RC>>>>), <<LB, RB>>, <<"a">>}

ApiKeyMissing == Msg("Please enter your Anthropic API key")
ApiError == Msg("API error")
\* the messages of lines 438, 503 and 556: what could not be parsed, then
\* the hint
Hint == "Try reducing Max Tokens in Settings."
MsgWithHint(str) == [t |-> "str", v |-> <<str, Hint>>]
HypothesesUnparsed == MsgWithHint("Could not parse hypotheses from response.")
ExperimentalUnparsed == MsgWithHint("Could not parse experimental design.")
LiteratureUnparsed == MsgWithHint("Could not parse literature analysis.")
NotCsv == Msg("Please upload a CSV file")

\* setLoading(prev => ({ ...prev, [w]: b }))
SetLoading(w, b) == loading' = [loading EXCEPT ![w] = b]

\* line 652
SetApiKey(k) ==
    /\ apiKey' = k
    /\ UNCHANGED <<arg, ret, data, columns, summary, selectedType,
                   customPrompt, hypotheses, experimentalDesign,
                   literatureAnalysis, loading, error, activeTab, pending,
                   inflight>>

\* lines 656, 678
SetActiveTab(tab) ==
    /\ activeTab' = tab
    /\ UNCHANGED <<arg, ret, apiKey, data, columns, summary, selectedType,
                   customPrompt, hypotheses, experimentalDesign,
                   literatureAnalysis, loading, error, pending,
                   inflight>>

\* line 699: the dismiss button of the error banner
DismissError ==
    /\ error.t # "null"
    /\ error' = Null
    /\ UNCHANGED <<arg, ret, apiKey, data, columns, summary, selectedType,
                   customPrompt, hypotheses, experimentalDesign,
                   literatureAnalysis, loading, activeTab, pending,
                   inflight>>

\* processFile without the setSummary of line 282
processFileKeepingSummary(file) ==
    /\ activeTab = "upload"
    /\ data' = Rows(parseCSV(file).data)
    /\ columns' = detectColumns(parseCSV(file).headers)
    /\ error' = Null
    /\ activeTab' = "analyze"
    /\ UNCHANGED <<arg, ret, apiKey, summary, selectedType, customPrompt,
                   hypotheses, experimentalDesign, literatureAnalysis,
                   loading, pending, inflight>>

\* processFile that also empties the three result slots
processFileClearing(file) ==
    /\ activeTab = "upload"
    /\ data' = Rows(parseCSV(file).data)
    /\ columns' = detectColumns(parseCSV(file).headers)
    /\ summary' = summarizeData(Rows(parseCSV(file).data),
                                detectColumns(parseCSV(file).headers))
    /\ error' = Null
    /\ activeTab' = "analyze"
    /\ hypotheses' = Null
    /\ experimentalDesign' = Null
    /\ literatureAnalysis' = Null
    /\ UNCHANGED <<arg, ret, apiKey, selectedType, customPrompt, loading,
                   pending, inflight>>

\* lines 272-292: reader.onload with the file's content
processFile(file) ==
    /\ activeTab = "upload"
    /\ data' = Rows(parseCSV(file).data)
    /\ columns' = detectColumns(parseCSV(file).headers)
    /\ summary' = summarizeData(Rows(parseCSV(file).data),
                                detectColumns(parseCSV(file).headers))
    /\ error' = Null
    /\ activeTab' = "analyze"
    /\ UNCHANGED <<arg, ret, apiKey, selectedType, customPrompt, hypotheses,
                   experimentalDesign, literatureAnalysis, loading, pending,
                   inflight>>

\* lines 314-328: a dropped file whose name does not end in .csv
handleDropOther ==
    /\ activeTab = "upload"
    /\ error' = NotCsv
    /\ UNCHANGED <<arg, ret, apiKey, data, columns, summary, selectedType,
                   customPrompt, hypotheses, experimentalDesign,
                   literatureAnalysis, loading, activeTab, pending,
                   inflight>>

\* line 865
SetSelectedType(id) ==
    /\ activeTab = "generate"
    /\ selectedType' = id
    /\ UNCHANGED <<arg, ret, apiKey, data, columns, summary, customPrompt,
                   hypotheses, experimentalDesign, literatureAnalysis,
                   loading, error, activeTab, pending,
                   inflight>>

\* lines 884-888: the textarea shown for the custom type
SetCustomPrompt(q) ==
    /\ activeTab = "generate"
    /\ selectedType = "custom"
    /\ customPrompt' = q
    /\ UNCHANGED <<arg, ret, apiKey, data, columns, summary, selectedType,
                   hypotheses, experimentalDesign, literatureAnalysis,
                   loading, error, activeTab, pending,
                   inflight>>

\* the result slot of a workflow
Slot(w) ==
    IF w = "hypotheses" THEN hypotheses
    ELSE IF w = "experimental" THEN experimentalDesign
    ELSE literatureAnalysis

\* callClaudeAPI without the check of lines 364-366: the request is sent
\* with an empty x-api-key header
callClaudeAPIUnchecked(w, before, title) ==
    /\ error' = Null
    /\ SetLoading(w, TRUE)
    /\ pending' = [pending EXCEPT ![w] = Invocation("await", before, title)]
    /\ inflight' = [inflight EXCEPT ![w] = @ + 1]

\* lines 363-366 and the workflow's catch and last line: without a key
\* callClaudeAPI throws before any request and the invocation ends at
\* once; with a key the request is sent and the workflow is suspended
callClaudeAPI(w, before, title) ==
    IF apiKey = ""
    THEN /\ error' = ApiKeyMissing
         /\ UNCHANGED <<loading, inflight>>
         /\ pending' = [pending EXCEPT ![w] = Invocation("failed", before, title)]
    ELSE /\ error' = Null
         /\ SetLoading(w, TRUE)
         /\ pending' = [pending EXCEPT ![w] = Invocation("await", before, title)]
         /\ inflight' = [inflight EXCEPT ![w] = @ + 1]

\* RequestFails without the last line of the workflow (lines 444, 509, 562)
RequestFailsStillLoading(w) ==
    /\ pending[w].st = "await"
    /\ error' = ApiError
    /\ pending' = [pending EXCEPT ![w].st = "failed"]
    /\ inflight' = [inflight EXCEPT ![w] = @ - 1]
    /\ UNCHANGED <<arg, ret, apiKey, data, columns, summary, selectedType,
                   customPrompt, hypotheses, experimentalDesign,
                   literatureAnalysis, loading, activeTab>>

\* lines 369-391 failing: fetch rejects, the status is not ok, or the body
\* has no content[0].text; then the workflow's catch and last line
RequestFails(w) ==
    /\ pending[w].st = "await"
    /\ error' = ApiError
    /\ SetLoading(w, FALSE)
    /\ pending' = [pending EXCEPT ![w].st = "failed"]
    /\ inflight' = [inflight EXCEPT ![w] = @ - 1]
    /\ UNCHANGED <<arg, ret, apiKey, data, columns, summary, selectedType,
                   customPrompt, hypotheses, experimentalDesign,
                   literatureAnalysis, activeTab>>

\* the button of line 898 without loading.hypotheses in its disabled
\* attribute
CanGenerateHypothesesWhileLoading ==
    /\ activeTab = "generate"
    /\ data.t # "null" /\ apiKey # "" /\ selectedType # NoType

\* line 898: the button is enabled
CanGenerateHypotheses ==
    /\ activeTab = "generate"
    /\ data.t # "null" /\ apiKey # "" /\ selectedType # NoType
    /\ ~loading.hypotheses

\* lines 395-431: generateHypotheses up to the await; the task prompt of
\* line 403 (customPrompt for the custom type) is sent as it is, empty or
\* not
generateHypotheses ==
    /\ CanGenerateHypotheses
    /\ IF selectedType = NoType
       THEN UNCHANGED <<hypotheses, error, loading, pending, inflight>>
       ELSE /\ hypotheses' = Null
            /\ callClaudeAPI("hypotheses", hypotheses, JUndefined)
    /\ UNCHANGED <<arg, ret, apiKey, data, columns, summary, selectedType,
                   customPrompt, experimentalDesign, literatureAnalysis,
                   activeTab>>

\* HypothesesParsed without the length test of line 434
HypothesesParsedAnyArray(parsed) ==
       IF parsed.kind = "return" /\ parsed.v.t = "arr"
       THEN /\ hypotheses' = parsed.v
            /\ activeTab' = "results"
            /\ pending' = [pending EXCEPT !.hypotheses = Done]
            /\ UNCHANGED error
       ELSE /\ error' = HypothesesUnparsed
            /\ pending' = [pending EXCEPT !.hypotheses.st = "failed"]
            /\ UNCHANGED <<hypotheses, activeTab>>

\* lines 434-441: what generateHypotheses does with the extractor's result
HypothesesParsed(parsed) ==
       IF parsed.kind = "return" /\ parsed.v.t = "arr" /\ Len(parsed.v.v) > 0
       THEN /\ hypotheses' = parsed.v
            /\ activeTab' = "results"
            /\ pending' = [pending EXCEPT !.hypotheses = Done]
            /\ UNCHANGED error
       ELSE /\ error' = HypothesesUnparsed
            /\ pending' = [pending EXCEPT !.hypotheses.st = "failed"]
            /\ UNCHANGED <<hypotheses, activeTab>>

\* lines 433-444: generateHypotheses from the response on
generateHypothesesResume(response) ==
    /\ pending.hypotheses.st = "await"
    /\ HypothesesParsed(parseJSONSafely(response, TRUE))
    /\ SetLoading("hypotheses", FALSE)
    /\ inflight' = [inflight EXCEPT !.hypotheses = @ - 1]
    /\ UNCHANGED <<arg, ret, apiKey, data, columns, summary, selectedType,
                   customPrompt, experimentalDesign, literatureAnalysis>>

\* hypothesis.title
Title(hyp) ==
    IF hyp.t = "obj" /\ <<"t", "i", "t", "l", "e">> \in DOMAIN hyp.v
    THEN hyp.v[<<"t", "i", "t", "l", "e">>]
    ELSE JUndefined

\* lines 911-913, 1004-1005: the button of a listed hypothesis is enabled
CanGenerateExperimentalDesign ==
    /\ activeTab = "results"
    /\ hypotheses.t = "arr"
    /\ ~loading.experimental

\* lines 448-492: generateExperimentalDesign(hypothesis) up to the await
generateExperimentalDesign(hypothesis) ==
    /\ CanGenerateExperimentalDesign
    /\ callClaudeAPI("experimental", experimentalDesign, Title(hypothesis))
    /\ UNCHANGED <<arg, ret, apiKey, data, columns, summary, selectedType,
                   customPrompt, hypotheses, experimentalDesign,
                   literatureAnalysis, activeTab>>

\* if (parsed): null and '' are falsy, every array and object is truthy
\* (the numerals of the model are not 0)
JTruthy(val) == val.t # "null" /\ ~(val.t = "str" /\ Len(val.v) = 0)

\* the own enumerable properties that ...parsed copies: the members of an
\* object, the elements of an array under their indices '0', '1', ...
IndexKey(i) == <<CASE i = 1 -> "0" [] i = 2 -> "1" [] OTHER -> "2">>
Members(parsed) ==
    IF parsed.t = "obj" THEN parsed.v
    ELSE IF parsed.t = "arr"
    THEN [k \in {IndexKey(i) : i \in 1..Len(parsed.v)} |->
             parsed.v[CHOOSE i \in 1..Len(parsed.v) : IndexKey(i) = k]]
    ELSE <<>>

\* { hypothesis: title, ...parsed }
WithHypothesis(title, parsed) ==
    JObj([k \in (DOMAIN Members(parsed)) \cup {<<"hypothesis">>} |->
            IF k \in DOMAIN Members(parsed) THEN Members(parsed)[k] ELSE title])

\* lines 495-506: what generateExperimentalDesign does with the
\* extractor's result
ExperimentalDesignParsed(parsed) ==
       IF parsed.kind = "return" /\ JTruthy(parsed.v)
       THEN /\ experimentalDesign' =
                   WithHypothesis(pending.experimental.title, parsed.v)
            /\ pending' = [pending EXCEPT !.experimental = Done]
            /\ UNCHANGED error
       ELSE /\ error' = ExperimentalUnparsed
            /\ pending' = [pending EXCEPT !.experimental.st = "failed"]
            /\ UNCHANGED experimentalDesign

\* lines 494-509: generateExperimentalDesign from the response on
generateExperimentalDesignResume(response) ==
    /\ pending.experimental.st = "await"
    /\ ExperimentalDesignParsed(parseJSONSafely(response, FALSE))
    /\ SetLoading("experimental", FALSE)
    /\ inflight' = [inflight EXCEPT !.experimental = @ - 1]
    /\ UNCHANGED <<arg, ret, apiKey, data, columns, summary, selectedType,
                   customPrompt, hypotheses, literatureAnalysis, activeTab>>

\* line 834: the button is enabled
CanGenerateLiteratureAnalysis ==
    /\ activeTab = "analyze"
    /\ data.t # "null" /\ apiKey # ""
    /\ ~loading.literature

\* generateLiteratureAnalysis with the setHypotheses(null) of line 400
generateLiteratureAnalysisClearing ==
    /\ CanGenerateLiteratureAnalysis
    /\ hypotheses' = Null
    /\ callClaudeAPI("literature", literatureAnalysis, JUndefined)
    /\ UNCHANGED <<arg, ret, apiKey, data, columns, summary, selectedType,
                   customPrompt, experimentalDesign, literatureAnalysis,
                   activeTab>>

\* lines 513-545: generateLiteratureAnalysis up to the await
generateLiteratureAnalysis ==
    /\ CanGenerateLiteratureAnalysis
    /\ callClaudeAPI("literature", literatureAnalysis, JUndefined)
    /\ UNCHANGED <<arg, ret, apiKey, data, columns, summary, selectedType,
                   customPrompt, hypotheses, experimentalDesign,
                   literatureAnalysis, activeTab>>

\* lines 551-558: what generateLiteratureAnalysis does with the
\* extractor's result
LiteratureAnalysisParsed(parsed) ==
       IF parsed.kind = "return" /\ JTruthy(parsed.v)
       THEN /\ literatureAnalysis' = parsed.v
            /\ pending' = [pending EXCEPT !.literature = Done]
            /\ UNCHANGED error
       ELSE /\ error' = LiteratureUnparsed
            /\ pending' = [pending EXCEPT !.literature.st = "failed"]
            /\ UNCHANGED literatureAnalysis

\* lines 550-562: generateLiteratureAnalysis from the response on
generateLiteratureAnalysisResume(response) ==
    /\ pending.literature.st = "await"
    /\ LiteratureAnalysisParsed(parseJSONSafely(response, FALSE))
    /\ SetLoading("literature", FALSE)
    /\ inflight' = [inflight EXCEPT !.literature = @ - 1]
    /\ UNCHANGED <<arg, ret, apiKey, data, columns, summary, selectedType,
                   customPrompt, hypotheses, experimentalDesign, activeTab>>

NoArg == [fn |-> "none"]

Init ==
    /\ arg = NoArg
    /\ ret = NoCall
    /\ AppInit

Next ==
    \/ \E k \in {"", "sk"} : SetApiKey(k)
    \/ \E tab \in Tabs : SetActiveTab(tab)
    \/ DismissError
    \/ \E file \in Files : processFile(file)
    \/ handleDropOther
    \/ \E id \in TypeIds : SetSelectedType(id)
    \/ \E q \in {"", "q"} : SetCustomPrompt(q)
    \/ generateHypotheses
    \/ \E response \in ResponseTexts : generateHypothesesResume(response)
    \/ \E i \in 1..(IF hypotheses.t = "arr" THEN Len(hypotheses.v) ELSE 0) :
          generateExperimentalDesign(hypotheses.v[i])
    \/ \E response \in ResponseTexts : generateExperimentalDesignResume(response)
    \/ generateLiteratureAnalysis
    \/ \E response \in ResponseTexts : generateLiteratureAnalysisResume(response)
    \/ \E w \in Workflows : RequestFails(w)

Spec == Init /\ [][Next]_vars

-----------------------------------------------------------------------------
(* Properties of the workflows *)

Failed(w) == pending[w].st = "failed"

\* C1: a failing invocation of a workflow leaves that workflow's result
\* slot as it was before the invocation: after the invocation has ended in
\* an error, the slot holds what it held when the workflow was invoked.
C1_FailureKeepsSlot ==
    \A w \in Workflows : Failed(w) => JEq(Slot(w), pending[w].before)

\* the same for the two workflows that do not clear their slot on entry
C1_OtherSlotsKept ==
    \A w \in {"experimental", "literature"} :
        Failed(w) => JEq(Slot(w), pending[w].before)

\* a failed literature analysis after an earlier successful one
C1_LiteratureKept ==
    /\ Failed("literature")
    /\ pending.literature.before.t = "obj"
    /\ literatureAnalysis.t = "obj"

\* a failed hypothesis generation after an earlier successful one: the slot
\* is empty
C1_HypothesesLost ==
    /\ Failed("hypotheses")
    /\ pending.hypotheses.before.t = "arr"
    /\ hypotheses.t = "null"

\* the step is an invocation of the workflow
Invokes(w) ==
    CASE w = "hypotheses" -> generateHypotheses
      [] w = "experimental" ->
            \E i \in 1..(IF hypotheses.t = "arr" THEN Len(hypotheses.v) ELSE 0) :
                generateExperimentalDesign(hypotheses.v[i])
      [] w = "literature" -> generateLiteratureAnalysis

\* C12: with no access credential, an invocation of a workflow ends with
\* the configuration error reported, and sends no request.
C12_NoKeyNoRequest ==
    [][\A w \in Workflows :
          (apiKey = "" /\ Invokes(w)) =>
              /\ error' = ApiKeyMissing
              /\ inflight' = inflight
              /\ pending'[w].st = "failed"
              /\ loading'[w] = loading[w]]_vars

\* an experimental design was asked for without a credential
C12_Witness ==
    /\ apiKey = ""
    /\ pending.experimental.st = "failed"
    /\ error.t = "str" /\ error = ApiKeyMissing
    /\ inflight.experimental = 0
    /\ ~loading.experimental

HasHint(e) == e.t = "str" /\ \E i \in 1..Len(e.v) : e.v[i] = Hint

\* the extractor's result is null (or, for hypotheses, an empty array)
Unusable(parsed, isArray) ==
    \/ parsed.kind # "return"
    \/ parsed.v.t = "null"
    \/ isArray /\ parsed.v.t = "arr" /\ Len(parsed.v.v) = 0

\* the stored design holds every member of the extracted object
HoldsMembers(stored, parsed) ==
    /\ stored.t = "obj"
    /\ \A k \in DOMAIN parsed.v : k \in DOMAIN stored.v /\ JEq(stored.v[k], parsed.v[k])

\* C13: when the extractor returns null (for hypothesis generation also a
\* zero-length array) the workflow ends in an extraction error whose
\* message holds the hint to reduce max tokens and stores nothing; the two
\* object-shaped workflows store every non-null extracted object, also an
\* empty one.
C13_ExtractionError ==
    [][\A w \in Workflows :
          inflight'[w] < inflight[w] =>
              \A response \in ResponseTexts :
                  /\ generateHypothesesResume(response) =>
                        IF Unusable(parseJSONSafely(response, TRUE), TRUE)
                        THEN HasHint(error') /\ JEq(hypotheses', hypotheses)
                        ELSE JEq(hypotheses', parseJSONSafely(response, TRUE).v)
                  /\ generateExperimentalDesignResume(response) =>
                        IF Unusable(parseJSONSafely(response, FALSE), FALSE)
                        THEN HasHint(error')
                             /\ JEq(experimentalDesign', experimentalDesign)
                        ELSE HoldsMembers(experimentalDesign',
                                          parseJSONSafely(response, FALSE).v)
                  /\ generateLiteratureAnalysisResume(response) =>
                        IF Unusable(parseJSONSafely(response, FALSE), FALSE)
                        THEN HasHint(error')
                             /\ JEq(literatureAnalysis', literatureAnalysis)
                        ELSE JEq(literatureAnalysis',
                                 parseJSONSafely(response, FALSE).v)]_vars

\* an empty object was stored as the literature analysis, and a hypothesis
\* generation ended in the extraction error
C13_Witness ==
    /\ literatureAnalysis.t = "obj" /\ DOMAIN literatureAnalysis.v = {}
    /\ pending.literature.st = "done"
    /\ Failed("hypotheses")
    /\ error.t = "str" /\ error = HypothesesUnparsed

\* the step settles a response of the workflow
Settles(w) ==
    CASE w = "hypotheses" ->
            \E response \in ResponseTexts : generateHypothesesResume(response)
      [] w = "experimental" ->
            \E response \in ResponseTexts :
                generateExperimentalDesignResume(response)
      [] w = "literature" ->
            \E response \in ResponseTexts :
                generateLiteratureAnalysisResume(response)

\* the step is one of an invocation of the workflow: its start, the failure
\* of its request, or its continuation with the response
StepOf(w) == Invokes(w) \/ RequestFails(w) \/ Settles(w)

\* C14: no step of an invocation of a workflow, whether the invocation
\* succeeds or fails, changes the result slot of another workflow.
C14_OtherSlotsUnchanged ==
    [][\A w \in Workflows :
          StepOf(w) => \A o \in Workflows \ {w} : JEq(Slot(o)', Slot(o))]_vars

\* a literature analysis has failed while hypotheses and an experimental
\* design are stored
C14_Witness ==
    /\ Failed("literature")
    /\ hypotheses.t = "arr"
    /\ experimentalDesign.t = "obj"
    /\ literatureAnalysis.t = "null"

\* C15: the error indication that a failed workflow has left is changed by
\* no step of a different workflow: neither the start of the other workflow
\* nor its completion writes the indication of the first.
C15_OwnErrorIndication ==
    [][\A w \in Workflows : \A o \in Workflows \ {w} :
          (Failed(w) /\ error.t = "str" /\ StepOf(o)) =>
              error'.t = "str" /\ error' = error]_vars

\* the trigger of the workflow is enabled
CanInvoke(w) ==
    CASE w = "hypotheses" -> CanGenerateHypotheses
      [] w = "experimental" -> CanGenerateExperimentalDesign
      [] w = "literature" -> CanGenerateLiteratureAnalysis

\* the trigger of the workflow is on the screen and nothing but the
\* workflow's loading flag can disable it
TriggerShown(w) ==
    CASE w = "hypotheses" ->
            /\ activeTab = "generate"
            /\ data.t # "null" /\ apiKey # "" /\ selectedType # NoType
      [] w = "experimental" -> activeTab = "results" /\ hypotheses.t = "arr"
      [] w = "literature" ->
            activeTab = "analyze" /\ data.t # "null" /\ apiKey # ""

\* C17 as stated: while an invocation of a workflow is pending, its trigger
\* stays enabled, so that a second request can be sent.
C17_RetriggerWhilePending ==
    \A w \in Workflows : (loading[w] /\ TriggerShown(w)) => CanInvoke(w)

\* C17, amended: while the loading flag of a workflow is set its trigger
\* is disabled, and at most one request of each workflow is in flight.
C17_OneRequestPerWorkflow ==
    \A w \in Workflows :
        /\ inflight[w] <= 1
        /\ loading[w] => ~CanInvoke(w)

\* a hypothesis generation is pending and the user is at its button
C17_Witness ==
    /\ loading.hypotheses /\ inflight.hypotheses = 1
    /\ TriggerShown("hypotheses")
    /\ ~CanGenerateHypotheses

\* C18: a hypothesis generation invoked with no type selected, or with the
\* custom type and an empty custom query, sends no request and changes
\* neither the hypotheses, the error indication, the loading flags nor the
\* active tab.
C18_NothingToAskIsNoOp ==
    [][(/\ generateHypotheses
        /\ \/ selectedType = NoType
           \/ selectedType = "custom" /\ customPrompt = "")
          => UNCHANGED <<hypotheses, error, loading, activeTab, inflight>>]_vars

\* every request that was sent is answered or fails: the continuation of a
\* suspended workflow is run
SpecSettling ==
    Spec /\ \A w \in Workflows : WF_vars(RequestFails(w) \/ Settles(w))

\* C27: when every request settles, a loading flag that is set is cleared
\* later, whatever the outcome, and while no request of any workflow is
\* pending the three loading flags are false.
C27_LoadingCleared ==
    /\ \A w \in Workflows : loading[w] ~> ~loading[w]
    /\ []((\A w \in Workflows : inflight[w] = 0) =>
              \A w \in Workflows : ~loading[w])

\* the three workflows have ended, one with a failed request, one with an
\* extraction error (its message is shown), one with a stored result, and
\* no flag is set
C27_Witness ==
    /\ Failed("hypotheses") /\ Failed("experimental")
    /\ pending.literature.st = "done" /\ literatureAnalysis.t = "obj"
    /\ error.t = "str" /\ error = ExperimentalUnparsed
    /\ \A w \in Workflows : inflight[w] = 0 /\ ~loading[w]

\* C28: in every reachable state the hypotheses are null or a non-empty
\* array, and the experimental design and the literature analysis are
\* each null or an object: no sequence of invocations and responses stores
\* a value of another shape.
C28_SlotShapes ==
    /\ hypotheses.t = "null" \/ (hypotheses.t = "arr" /\ Len(hypotheses.v) > 0)
    /\ experimentalDesign.t \in {"null", "obj"}
    /\ literatureAnalysis.t \in {"null", "obj"}

\* the three slots are filled, each from the response '[{}]'
C28_Witness ==
    /\ hypotheses.t = "arr" /\ Len(hypotheses.v) = 1
    /\ experimentalDesign.t = "obj"
    /\ literatureAnalysis.t = "obj" /\ DOMAIN literatureAnalysis.v = {}
    /\ \A w \in Workflows : pending[w].st = "done"

-----------------------------------------------------------------------------
(* Properties of uploads *)

\* C11: an upload of empty or whitespace-only content records an error and
\* leaves the rows, the column roles and the summary as they were.
C11_EmptyUploadRejected ==
    [][\A file \in {FEmpty, FBlank} :
          processFile(file) =>
              /\ error'.t = "str"
              /\ UNCHANGED <<data, columns, summary>>]_vars

\* the rows of an earlier upload were replaced by the empty table of an
\* empty file: no rows, no roles, no summary, no error, the analyze tab
C11_EmptyTableStored ==
    /\ data.t = "rows" /\ Len(data.v) = 0
    /\ DOMAIN columns = {}
    /\ summary.t = "null"
    /\ error.t = "null"
    /\ activeTab = "analyze"

\* the stored summary is the summary of the stored rows and roles
SummaryOfStored ==
    LET s == summarizeData(data, columns)
    IN  /\ summary.t = s.t
        /\ s.t = "summary" => summary.v = s.v

\* C19: in every reachable state the stored summary is
\* summarizeData(stored rows, stored roles), null when there are no rows,
\* and a rejected upload changes neither the rows, the roles nor the
\* summary.
C19_SummaryOfStoredRows ==
    /\ []SummaryOfStored
    /\ [][handleDropOther => UNCHANGED <<data, columns, summary>>]_vars

\* a file that is no CSV file was dropped after a table had been uploaded
C19_Witness ==
    /\ data.t = "rows" /\ Len(data.v) > 0
    /\ summary.t = "summary" /\ summary.v.significant > 0
    /\ error.t = "str" /\ error = NotCsv

\* C25: every stored row maps every header to a number that a numeric
\* parse of the cell gave, or to the cell's text; also for an empty cell
\* and for a line with fewer cells than there are headers.
C25_CellsNumberOrText ==
    data.t = "rows" =>
        \A i \in 1..Len(data.v) : \A h \in DOMAIN data.v[i] :
            data.v[i][h].k \in {"num", "str"}

\* C26: an upload, stored or refused, leaves the hypotheses, the
\* experimental design and the literature analysis as they were.
C26_UploadKeepsResults ==
    [][((\E file \in Files : processFile(file)) \/ handleDropOther) =>
          /\ JEq(hypotheses', hypotheses)
          /\ JEq(experimentalDesign', experimentalDesign)
          /\ JEq(literatureAnalysis', literatureAnalysis)]_vars

\* the three results are stored, no request is pending, the table is an
\* empty one and the last thing shown is the refusal of a dropped file
C26_Witness ==
    /\ hypotheses.t = "arr"
    /\ experimentalDesign.t = "obj"
    /\ literatureAnalysis.t = "obj"
    /\ \A w \in Workflows : inflight[w] = 0
    /\ data.t = "rows" /\ Len(data.v) = 0 /\ summary.t = "null"
    /\ error.t = "str" /\ error = NotCsv

=============================================================================
